---- MODULE Spec2Model ----
(***************************************************************************)
(* Model of src-tauri/icons/gen_icon.py: a linear script that hand-encodes *)
(* a 16x16 icon.ico and a 32x32 icon.png and writes them next to itself.   *)
(*                                                                         *)
(* Bytes are integers 0..255 and byte strings are sequences of bytes.      *)
(* TLC integers are 32-bit signed, so the two 32-bit unsigned checksums    *)
(* (CRC32, Adler32) are kept as 4-byte words, least significant byte first.*)
(***************************************************************************)
EXTENDS Integers, Sequences, FiniteSets, TLC

VARIABLES pc, disk, before, fopen, buf, stdout, raw, row, err, opened, runs

vars == <<pc, disk, before, fopen, buf, stdout, raw, row, err, opened, runs>>

(***************************************************************************)
(* Bounds of the exploration (not program constants).                      *)
(***************************************************************************)
\* number of times the script is run one after the other
MaxRuns == 2
\* length of a pre-existing file that is shorter than either output
OldShortLen == 3
\* length of a pre-existing file that is longer than either output
OldLongLen == 4300
\* largest number of bytes a failing flush gets onto the disk before the error
MaxPartial == 2

(***************************************************************************)
(* Byte-string helpers.                                                    *)
(***************************************************************************)
Min(a, b) == IF a < b THEN a ELSE b

Take(s, n) == SubSeq(s, 1, n)

Drop(s, n) == SubSeq(s, n + 1, Len(s))

\* Python's  bytes * n
Repeat(b, n) == [k \in 1..(Len(b) * n) |-> b[((k - 1) % Len(b)) + 1]]

RECURSIVE Pow(_, _)
Pow(b, e) == IF e = 0 THEN 1 ELSE b * Pow(b, e - 1)

\* n-byte little-endian / big-endian encodings of a non-negative integer
LE(x, n) == [k \in 1..n |-> (x \div Pow(256, k - 1)) % 256]

BE(x, n) == [k \in 1..n |-> (x \div Pow(256, n - k)) % 256]

\* struct: standard size of a format code (no alignment with '<' or '>')
calcsize(code) ==
    CASE code = "B" -> 1
      [] code = "H" -> 2
      [] code = "I" -> 4
      [] code = "i" -> 4

\* struct.pack(order + codes, *vals); order is "<" or ">"
RECURSIVE struct_pack(_, _, _)
struct_pack(order, codes, vals) ==
    IF codes = <<>> THEN <<>>
    ELSE (IF order = "<" THEN LE(Head(vals), calcsize(Head(codes)))
                         ELSE BE(Head(vals), calcsize(Head(codes))))
         \o struct_pack(order, Tail(codes), Tail(vals))

(***************************************************************************)
(* zlib.crc32: the reflected CRC-32 (polynomial EDB88320), table driven,   *)
(* on 4-byte words <<b0, b1, b2, b3>>, b0 the least significant byte.      *)
(***************************************************************************)
RECURSIVE XorBits(_, _, _)
XorBits(a, b, n) ==
    IF n = 0 THEN 0
    ELSE ((a + b) % 2) + 2 * XorBits(a \div 2, b \div 2, n - 1)

\* exclusive or of two bytes, tabulated once: xor8_table[a + 1][b + 1]
xor8_table ==
    <<>> \o [a \in 1..256 |-> <<>> \o [b \in 1..256 |-> XorBits(a - 1, b - 1, 8)]]

xor8(a, b) == xor8_table[a + 1][b + 1]

\* exclusive or of two 16-bit integers
xor16(a, b) == XorBits(a, b, 16)

\* the polynomial EDB88320 as two 16-bit halves
crc_poly_hi == 60856

crc_poly_lo == 33568

\* table entry of n: 8 times  c = (c & 1) ? poly ^ (c >> 1) : c >> 1,  on the
\* 16-bit halves hi, lo of c; half selects the half returned
RECURSIVE crc_entry(_, _, _, _)
crc_entry(hi, lo, k, half) ==
    IF k = 0 THEN (IF half = "hi" THEN hi ELSE lo)
    ELSE IF lo % 2 = 1
         THEN crc_entry(xor16(crc_poly_hi, hi \div 2),
                        xor16(crc_poly_lo, (lo \div 2) + 32768 * (hi % 2)),
                        k - 1, half)
         ELSE crc_entry(hi \div 2, (lo \div 2) + 32768 * (hi % 2), k - 1, half)

\* the 256-entry table, tabulated once: crc_table[n + 1] is the entry of n
crc_table ==
    <<>> \o [n \in 1..256 |->
              <<crc_entry(0, n - 1, 8, "lo") % 256, crc_entry(0, n - 1, 8, "lo") \div 256,
                crc_entry(0, n - 1, 8, "hi") % 256, crc_entry(0, n - 1, 8, "hi") \div 256>>]

\* one byte: c = table[(c ^ b) & 0xff] ^ (c >> 8)
crc_update(c, b) ==
    LET t == crc_table[xor8(c[1], b) + 1]
    IN  <<xor8(t[1], c[2]), xor8(t[2], c[3]), xor8(t[3], c[4]), t[4]>>

\* the register after bytes lo..hi of s, left to right (split in halves, the
\* left half computed before the right one is entered, to keep the
\* evaluation shallow)
RECURSIVE crc_run(_, _, _, _)
crc_run(c, s, lo, hi) ==
    IF lo > hi THEN c
    ELSE IF lo = hi THEN crc_update(c, s[lo])
    ELSE LET mid == (lo + hi) \div 2
             left == crc_run(c, s, lo, mid)
         IN  IF Len(left) = 4 THEN crc_run(left, s, mid + 1, hi) ELSE <<>>

zlib_crc32(s) ==
    LET c == crc_run(<<255, 255, 255, 255>>, s, 1, Len(s))
    IN  <<255 - c[1], 255 - c[2], 255 - c[3], 255 - c[4]>>

\* crc & 0xffffffff on a 4-byte word: every byte kept to 8 bits
mask32(x) == <<x[1] % 256, x[2] % 256, x[3] % 256, x[4] % 256>>

\* struct.pack('>I', x) of a 32-bit word
pack_word_be(x) == <<x[4], x[3], x[2], x[1]>>

(***************************************************************************)
(* zlib.compress.  The bytes deflate emits depend on the zlib build; what  *)
(* every build emits is an RFC 1950 stream (2-byte header, deflate blocks, *)
(* big-endian Adler-32 of the input) that inflates to the input.  The      *)
(* model emits the stream with one stored block (RFC 1951, 3.2.4), which   *)
(* holds any input of at most 65535 bytes; the script's input has 4128.    *)
(***************************************************************************)
\* one byte: a = (a + b) mod 65521, b = (b + a) mod 65521, on <<a, b>>
adler_update(st, b) ==
    LET a == (st[1] + b) % 65521
    IN  <<a, (st[2] + a) % 65521>>

RECURSIVE adler_run(_, _, _, _)
adler_run(st, s, lo, hi) ==
    IF lo > hi THEN st
    ELSE IF lo = hi THEN adler_update(st, s[lo])
    ELSE LET mid == (lo + hi) \div 2
             left == adler_run(st, s, lo, mid)
         IN  IF Len(left) = 2 THEN adler_run(left, s, mid + 1, hi) ELSE <<>>

\* Adler-32 of s as its 4 bytes, most significant first: (b << 16) | a
adler32_be(s) ==
    LET st == adler_run(<<1, 0>>, s, 1, Len(s))
    IN  <<st[2] \div 256, st[2] % 256, st[1] \div 256, st[1] % 256>>

zlib_compress(data) ==
    <<120, 156>>
    \o <<1>> \o LE(Len(data), 2) \o LE(65535 - Len(data), 2) \o data
    \o adler32_be(data)

(***************************************************************************)
(* Lines 7-14: the bytes of icon.ico.                                      *)
(***************************************************************************)
w == 16

h == 16

\* variant of info: the height field not doubled
info_single_height ==
    struct_pack("<", <<"I", "i", "i", "H", "H", "I", "I", "i", "i", "I", "I">>,
                <<40, w, h, 1, 32, 0, 0, 0, 0, 0, 0>>)

info ==
    struct_pack("<", <<"I", "i", "i", "H", "H", "I", "I", "i", "i", "I", "I">>,
                <<40, w, h * 2, 1, 32, 0, 0, 0, 0, 0, 0>>)

\* variant of px: the colour in the byte order the PNG uses
px_rgba == Repeat(Repeat(<<59, 130, 246, 255>>, w), h)

px == Repeat(Repeat(<<246, 130, 59, 255>>, w), h)

mask == Repeat(Repeat(<<0>>, h), 4)

img == info \o px \o mask

hdr == struct_pack("<", <<"H", "H", "H">>, <<0, 1, 1>>)

\* variant of d: the size field counts the pixel array only
d_payload_size ==
    struct_pack("<", <<"B", "B", "B", "B", "H", "H", "I", "I">>,
                <<w, h, 0, 0, 1, 32, Len(px), 22>>)

\* variant of d: planes and bit count left 0
d_zero_planes ==
    struct_pack("<", <<"B", "B", "B", "B", "H", "H", "I", "I">>,
                <<w, h, 0, 0, 0, 0, Len(img), 22>>)

d ==
    struct_pack("<", <<"B", "B", "B", "B", "H", "H", "I", "I">>,
                <<w, h, 0, 0, 1, 32, Len(img), 22>>)

ico_path == "icon.ico"

(***************************************************************************)
(* Lines 20-32: the pieces of icon.png.                                    *)
(***************************************************************************)
w2 == 32

h2 == 32

\* variant of raw_line: no filter byte in front of the scanline
raw_line_no_filter == Repeat(<<59, 130, 246, 255>>, w2)

\* what one iteration of the loop of lines 23-24 appends to raw
raw_line == <<0>> \o Repeat(<<59, 130, 246, 255>>, w2)

ihdr_data ==
    struct_pack(">", <<"I", "I", "B", "B", "B", "B", "B">>, <<w2, h2, 8, 6, 0, 0, 0>>)

\* variant of png_chunk: the length field counts the type bytes too
png_chunk_len_with_type(chunk_type, data) ==
    LET crc == mask32(zlib_crc32(chunk_type \o data))
    IN  struct_pack(">", <<"I">>, <<Len(chunk_type \o data)>>) \o chunk_type \o data
        \o pack_word_be(crc)

\* variant of png_chunk: the checksum covers the payload alone
png_chunk_crc_data_only(chunk_type, data) ==
    LET crc == mask32(zlib_crc32(data))
    IN  struct_pack(">", <<"I">>, <<Len(data)>>) \o chunk_type \o data
        \o pack_word_be(crc)

png_chunk(chunk_type, data) ==
    LET crc == mask32(zlib_crc32(chunk_type \o data))
    IN  struct_pack(">", <<"I">>, <<Len(data)>>) \o chunk_type \o data
        \o pack_word_be(crc)

png_path == "icon.png"

\* b'\x89PNG\r\n\x1a\n'
png_signature == <<137, 80, 78, 71, 13, 10, 26, 10>>

IHDR == <<73, 72, 68, 82>>

IDAT == <<73, 68, 65, 84>>

IEND == <<73, 69, 78, 68>>

(***************************************************************************)
(* The file system and Python's buffered binary file object.               *)
(*                                                                         *)
(* disk[p] is the content of the file at path p, or Absent.  f = open(p,   *)
(* 'wb') is a buffered writer: f.write(data) either keeps data in the      *)
(* buffer or pushes buffer and data to the file, depending on the buffer   *)
(* size of the build; leaving the with block closes f, which flushes the   *)
(* buffer.  A failing push gets some of its bytes onto the disk and raises *)
(* OSError.                                                                *)
(***************************************************************************)
Paths == {ico_path, png_path}

\* the content of a path that does not exist (no byte string)
Absent == <<-1>>

Junk(n) == [k \in 1..n |-> 170]

\* what may lie at an output path before the first run
OldContents == {Absent, Junk(OldShortLen), Junk(OldLongLen)}

\* variant of open_wb: the file opened for appending, its content kept
open_ab(content) == IF content = <<-1>> THEN <<>> ELSE content

\* the file's content right after open(path, 'wb'): created empty if
\* absent, truncated to length 0 otherwise
open_wb(content) == <<>>

\* variant of on_error: the exception is swallowed and the script goes on
on_error_swallow(next) == next

\* pc after an exception leaves the statement at pc "next" was to follow:
\* nothing catches it, the interpreter prints the trace and exits
on_error(next) == "failed"

Init ==
    /\ pc = "ico_open"
    /\ disk \in [Paths -> OldContents]
    /\ before = disk
    /\ fopen = "none"
    /\ buf = <<>>
    /\ stdout = <<>>
    /\ raw = <<>>
    /\ row = 0
    /\ err = "none"
    /\ opened = {}
    /\ runs = 1

\* with open(path, 'wb') as f:
Open(path, here, next) ==
    /\ pc = here
    /\ \/ /\ disk' = [disk EXCEPT ![path] = open_wb(@)]
          /\ fopen' = path
          /\ buf' = <<>>
          /\ opened' = opened \cup {path}
          /\ pc' = next
          /\ UNCHANGED err
       \/ /\ pc' = on_error(next)
          /\ err' = path
          /\ UNCHANGED <<disk, fopen, buf, opened>>
    /\ UNCHANGED <<before, stdout, raw, row, runs>>

\* f.write(data), inside the with block
Write(data, here, next) ==
    /\ pc = here
    /\ fopen # "none"
    /\ \/ /\ buf' = buf \o data
          /\ pc' = next
          /\ UNCHANGED <<disk, err>>
       \/ /\ disk' = [disk EXCEPT ![fopen] = @ \o buf \o data]
          /\ buf' = <<>>
          /\ pc' = next
          /\ UNCHANGED err
       \/ \E k \in 0..Min(MaxPartial, Len(buf) + Len(data) - 1) :
             /\ disk' = [disk EXCEPT ![fopen] = @ \o Take(buf \o data, k)]
             /\ buf' = Drop(buf, Min(k, Len(buf)))
             /\ err' = fopen
             /\ pc' = IF on_error(next) = "failed" THEN "with_exit" ELSE next
    /\ UNCHANGED <<before, fopen, stdout, raw, row, opened, runs>>

\* the end of the with block: f.close(), which flushes the buffer
Close(here, next) ==
    /\ pc = here
    /\ fopen # "none"
    /\ \/ /\ disk' = [disk EXCEPT ![fopen] = @ \o buf]
          /\ pc' = next
          /\ UNCHANGED err
       \/ \E k \in 0..Min(MaxPartial, Len(buf) - 1) :
             /\ disk' = [disk EXCEPT ![fopen] = @ \o Take(buf, k)]
             /\ err' = fopen
             /\ pc' = on_error(next)
    /\ buf' = <<>>
    /\ fopen' = "none"
    /\ UNCHANGED <<before, stdout, raw, row, opened, runs>>

\* an exception leaves the with block: f is closed on the way out, and what
\* is left in the buffer is pushed (all of it, or some of it)
WithExit ==
    /\ pc = "with_exit"
    /\ \E k \in (0..Min(MaxPartial, Len(buf))) \cup {Len(buf)} :
          disk' = [disk EXCEPT ![fopen] = @ \o Take(buf, k)]
    /\ buf' = <<>>
    /\ fopen' = "none"
    /\ pc' = "failed"
    /\ UNCHANGED <<before, stdout, raw, row, err, opened, runs>>

\* print(line)
Say(line, here, next) ==
    /\ pc = here
    /\ stdout' = Append(stdout, line)
    /\ pc' = next
    /\ UNCHANGED <<disk, before, fopen, buf, raw, row, err, opened, runs>>

(***************************************************************************)
(* The script, statement by statement.                                     *)
(***************************************************************************)
IcoOpen == Open(ico_path, "ico_open", "ico_write")

IcoWrite == Write(hdr \o d \o img, "ico_write", "ico_close")

IcoClose == Close("ico_close", "ico_print")

IcoPrint == Say("Created " \o ico_path, "ico_print", "raw_init")

\* raw = b''
RawInit ==
    /\ pc = "raw_init"
    /\ raw' = <<>>
    /\ row' = 0
    /\ pc' = "raw_loop"
    /\ UNCHANGED <<disk, before, fopen, buf, stdout, err, opened, runs>>

\* for _ in range(h2): raw += b'\x00' + b'\x3b\x82\xf6\xff' * w2
RawLoop ==
    /\ pc = "raw_loop"
    /\ IF row < h2
       THEN /\ raw' = raw \o raw_line
            /\ row' = row + 1
            /\ pc' = pc
       ELSE /\ pc' = "png_open"
            /\ UNCHANGED <<raw, row>>
    /\ UNCHANGED <<disk, before, fopen, buf, stdout, err, opened, runs>>

PngOpen == Open(png_path, "png_open", "png_sig")

PngWriteSignature == Write(png_signature, "png_sig", "png_ihdr")

PngWriteIHDR == Write(png_chunk(IHDR, ihdr_data), "png_ihdr", "png_idat")

PngWriteIDAT == Write(png_chunk(IDAT, zlib_compress(raw)), "png_idat", "png_iend")

PngWriteIEND == Write(png_chunk(IEND, <<>>), "png_iend", "png_close")

PngClose == Close("png_close", "png_print")

PngPrint == Say("Created " \o png_path, "png_print", "done_print")

DonePrint == Say("Done!", "done_print", "done")

\* the script is run again, on the files the last run left
Rerun ==
    /\ pc \in {"done", "failed"}
    /\ runs < MaxRuns
    /\ runs' = runs + 1
    /\ pc' = "ico_open"
    /\ before' = disk
    /\ stdout' = <<>>
    /\ raw' = <<>>
    /\ row' = 0
    /\ err' = "none"
    /\ opened' = {}
    /\ UNCHANGED <<disk, fopen, buf>>

Next ==
    \/ IcoOpen
    \/ IcoWrite
    \/ IcoClose
    \/ IcoPrint
    \/ RawInit
    \/ RawLoop
    \/ PngOpen
    \/ PngWriteSignature
    \/ PngWriteIHDR
    \/ PngWriteIDAT
    \/ PngWriteIEND
    \/ PngClose
    \/ PngPrint
    \/ DonePrint
    \/ WithExit
    \/ Rerun

Spec == Init /\ [][Next]_vars

(***************************************************************************)
(* Reading the files back: independent decoders used by the properties.    *)
(***************************************************************************)
Ico == disk[ico_path]

Png == disk[png_path]

\* unsigned integers at a 0-based byte offset of a byte string
U16LEAt(f, off) == f[off + 1] + 256 * f[off + 2]

U32LEAt(f, off) ==
    f[off + 1] + 256 * f[off + 2] + 65536 * f[off + 3] + 16777216 * f[off + 4]

U32BEAt(f, off) ==
    16777216 * f[off + 1] + 65536 * f[off + 2] + 256 * f[off + 3] + f[off + 4]

\* n bytes at a 0-based offset
BytesAt(f, off, n) == SubSeq(f, off + 1, off + n)

IsPrefix(s, t) == Len(s) <= Len(t) /\ s = SubSeq(t, 1, Len(s))

IsBytes(f) == \A k \in 1..Len(f) : f[k] \in 0..255

\* the run ended normally / the script reached its end
RunDone == pc = "done"

\* the three chunks of a complete icon.png, located by walking the length
\* fields: [off |-> offset of the length field, len |-> payload length]
ChunkAt(f, off) == [off |-> off, len |-> U32BEAt(f, off)]

ChunkEnd(c) == c.off + 12 + c.len

ChunkType(f, c) == BytesAt(f, c.off + 4, 4)

ChunkData(f, c) == BytesAt(f, c.off + 8, c.len)

ChunkCrc(f, c) == BytesAt(f, c.off + 8 + c.len, 4)

Chunk1 == ChunkAt(Png, 8)

Chunk2 == ChunkAt(Png, ChunkEnd(Chunk1))

Chunk3 == ChunkAt(Png, ChunkEnd(Chunk2))

\* inflate of an RFC 1950 stream made of one final stored block; <<-1>> if
\* the stream is not one or its Adler-32 does not match
zlib_decompress(z) ==
    IF /\ Len(z) >= 11
       /\ z[1] % 16 = 8
       /\ (256 * z[1] + z[2]) % 31 = 0
       /\ z[3] = 1
       /\ U16LEAt(z, 5) = 65535 - U16LEAt(z, 3)
       /\ Len(z) = 11 + U16LEAt(z, 3)
    THEN LET data == BytesAt(z, 7, U16LEAt(z, 3))
         IN  IF BytesAt(z, 7 + Len(data), 4) = adler32_be(data) THEN data ELSE <<-1>>
    ELSE <<-1>>

\* the bytes one run writes to each path
ExpectedIco == hdr \o d \o img

ExpectedPng ==
    png_signature \o png_chunk(IHDR, ihdr_data)
    \o png_chunk(IDAT, zlib_compress(Repeat(raw_line, h2)))
    \o png_chunk(IEND, <<>>)

Expected(path) == IF path = ico_path THEN ExpectedIco ELSE ExpectedPng

(***************************************************************************)
(* Properties.                                                             *)
(***************************************************************************)

\* C1: after a successful run icon.ico has 1150 bytes; its header reads
\* reserved 0, type 1, count 1; its one directory entry reads width 16,
\* height 16, size 1128 = 40 + 1024 + 64 = the bytes that follow the
\* directory, offset 22 = where the DIB header (first field 40) starts; and
\* offset + size is the file length.
C1_IcoDirectoryConsistent ==
    RunDone =>
        /\ Len(Ico) = 1150
        /\ IsBytes(Ico)
        /\ U16LEAt(Ico, 0) = 0
        /\ U16LEAt(Ico, 2) = 1
        /\ U16LEAt(Ico, 4) = 1
        /\ Ico[7] = 16
        /\ Ico[8] = 16
        /\ U32LEAt(Ico, 14) = 1128
        /\ U32LEAt(Ico, 14) = 40 + (Ico[7] * Ico[8] * 4) + (Ico[8] * 4)
        /\ U32LEAt(Ico, 14) = Len(Ico) - (6 + 16 * U16LEAt(Ico, 4))
        /\ U32LEAt(Ico, 18) = 22
        /\ U32LEAt(Ico, 18) = 6 + 16 * U16LEAt(Ico, 4)
        /\ U32LEAt(Ico, U32LEAt(Ico, 18)) = 40
        /\ U32LEAt(Ico, 18) + U32LEAt(Ico, 14) = Len(Ico)

\* C1 witness: a first run on a directory without icon.ico has ended and
\* left a 1150-byte icon.ico
C1_Witness ==
    /\ RunDone
    /\ runs = 1
    /\ before[ico_path] = Absent
    /\ Len(Ico) = 1150

\* C2 as stated: in the directory entry of icon.ico the colour-planes field
\* and the bits-per-pixel field are both 0.
C2_PlanesAndBitCountZero ==
    RunDone => (U16LEAt(Ico, 10) = 0 /\ U16LEAt(Ico, 12) = 0)

\* C2 amended: in the directory entry of icon.ico the colour-count byte and
\* the reserved byte are 0, the colour-planes field is 1 and the
\* bits-per-pixel field is 32, the values the embedded DIB header carries.
C2_EntryPlanesAndBitCount ==
    RunDone =>
        /\ Len(Ico) >= 62
        /\ Ico[9] = 0
        /\ Ico[10] = 0
        /\ U16LEAt(Ico, 10) = 1
        /\ U16LEAt(Ico, 12) = 32
        /\ U16LEAt(Ico, 10) = U16LEAt(Ico, 22 + 12)
        /\ U16LEAt(Ico, 12) = U16LEAt(Ico, 22 + 14)

\* C2 witness: a run has ended and the directory entry it wrote carries
\* planes 1 and bit count 32
C2_Witness ==
    /\ RunDone
    /\ Len(Ico) >= 22
    /\ BytesAt(Ico, 8, 6) = <<0, 0, 1, 0, 32, 0>>

\* C3: the DIB header of icon.ico (the 40 bytes at offset 22, little
\* endian) reads header size 40, width 16, height 32 = twice the entry's
\* height, planes 1, bit count 32, compression 0 and five more fields 0;
\* the pixel array starts right after it.
C3_DibHeader ==
    RunDone =>
        /\ Len(Ico) >= 66
        /\ U32LEAt(Ico, 22) = 40
        /\ U32LEAt(Ico, 26) = 16
        /\ U32LEAt(Ico, 30) = 32
        /\ U32LEAt(Ico, 30) = 2 * Ico[8]
        /\ U16LEAt(Ico, 34) = 1
        /\ U16LEAt(Ico, 36) = 32
        /\ U32LEAt(Ico, 38) = 0
        /\ \A f \in 0..4 : U32LEAt(Ico, 42 + 4 * f) = 0
        /\ BytesAt(Ico, 22 + 16, 24) = [k \in 1..24 |-> 0]
        /\ BytesAt(Ico, 22 + U32LEAt(Ico, 22), 4) = <<246, 130, 59, 255>>

\* C3 witness: a run has ended and icon.ico holds a DIB header of declared
\* size 40 with height field 32
C3_Witness ==
    /\ RunDone
    /\ Len(Ico) >= 62
    /\ BytesAt(Ico, 22, 4) = <<40, 0, 0, 0>>
    /\ BytesAt(Ico, 30, 4) = <<32, 0, 0, 0>>

\* the scanlines the IDAT chunk of icon.png carries
PngRaw == zlib_decompress(ChunkData(Png, Chunk2))

\* C4: in icon.ico the pixel array after the DIB header holds width * height
\* = 256 pixels of 4 bytes, each F6 82 3B FF, which is the blue-green-red-
\* alpha order of the pixel icon.png stores as 3B 82 F6 FF; the mask after
\* it has height * 4 = 64 bytes, all 0, and ends the file.
C4_IcoPixelsAndMask ==
    RunDone =>
        /\ Len(Ico) = 1150
        /\ Ico[7] * Ico[8] = 256
        /\ \A p \in 0..(Ico[7] * Ico[8] - 1) :
              BytesAt(Ico, 62 + 4 * p, 4) = <<246, 130, 59, 255>>
        /\ Len(PngRaw) >= 5
        /\ BytesAt(PngRaw, 1, 4) = <<59, 130, 246, 255>>
        /\ BytesAt(Ico, 62, 4)
             = <<PngRaw[4], PngRaw[3], PngRaw[2], PngRaw[5]>>
        /\ Ico[8] * 4 = 64
        /\ BytesAt(Ico, 62 + 4 * Ico[7] * Ico[8], Ico[8] * 4) = [k \in 1..64 |-> 0]
        /\ 62 + 4 * Ico[7] * Ico[8] + Ico[8] * 4 = Len(Ico)

\* C4 witness: a run has ended, icon.ico has its last pixel F6 82 3B FF at
\* offset 1082 and 64 more bytes after it
C4_Witness ==
    /\ RunDone
    /\ Len(Ico) = 1086 + 64
    /\ BytesAt(Ico, 1082, 4) = <<246, 130, 59, 255>>

\* C5: after a successful run icon.png is the 8-byte signature followed by
\* exactly three chunks, IHDR, IDAT, IEND, and nothing else; each length
\* field equals the number of payload bytes (13, the length of the
\* compressed stream, 0); and while the file is being written the signature
\* is in the stream before any chunk is.
C5_PngSignatureAndChunks ==
    /\ RunDone =>
          /\ Len(Png) >= 8 + 12 + 13 + 12 + 12
          /\ IsBytes(Png)
          /\ BytesAt(Png, 0, 8) = <<137, 80, 78, 71, 13, 10, 26, 10>>
          /\ Chunk1.len = 13
          /\ ChunkType(Png, Chunk1) = <<73, 72, 68, 82>>
          /\ ChunkEnd(Chunk2) + 12 = Len(Png)
          /\ ChunkType(Png, Chunk2) = <<73, 68, 65, 84>>
          /\ Chunk2.len = 2 + 5 + U16LEAt(ChunkData(Png, Chunk2), 3) + 4
          /\ Chunk3.len = 0
          /\ ChunkType(Png, Chunk3) = <<73, 69, 78, 68>>
          /\ ChunkEnd(Chunk3) = Len(Png)
    /\ (fopen = png_path /\ pc = "png_sig") => Png \o buf = <<>>
    /\ (fopen = png_path /\ pc \in {"png_ihdr", "png_idat", "png_iend", "png_close"}) =>
          BytesAt(Png \o buf, 0, 8) = <<137, 80, 78, 71, 13, 10, 26, 10>>
    /\ (fopen = png_path /\ pc = "png_idat") =>
          /\ Len(Png \o buf) = 8 + 12 + 13
          /\ BytesAt(Png \o buf, 12, 4) = <<73, 72, 68, 82>>
    /\ (fopen = png_path /\ pc = "png_close") =>
          BytesAt(Png \o buf, Len(Png \o buf) - 8, 4) = <<73, 69, 78, 68>>

\* C5 witness: a run has ended and icon.png ends with an IEND chunk of
\* length 0 that follows an IDAT chunk
C5_Witness ==
    /\ RunDone
    /\ Len(Png) > 57
    /\ BytesAt(Png, Len(Png) - 12, 8) = <<0, 0, 0, 0, 73, 69, 78, 68>>
    /\ BytesAt(Png, 37, 4) = <<73, 68, 65, 84>>

\* r is height scanlines of 1 + 4 * width bytes, each a filter byte 0
\* followed by width groups 3B 82 F6 FF
IsScanlines(r, width, height) ==
    /\ Len(r) = height * (1 + 4 * width)
    /\ \A y \in 0..(height - 1) :
          /\ r[(1 + 4 * width) * y + 1] = 0
          /\ \A x \in 0..(width - 1) :
                BytesAt(r, (1 + 4 * width) * y + 1 + 4 * x, 4) = <<59, 130, 246, 255>>

\* C6: the data the IDAT chunk of icon.png inflates to is 32 scanlines of
\* 1 + 32 * 4 = 129 bytes, each a filter byte 0 followed by 32 groups
\* 3B 82 F6 FF; the IHDR payload reads width 32, height 32, bit depth 8,
\* colour type 6, compression, filter and interlace 0, the dimensions of
\* those scanlines; and that data is what the loop built in raw.
C6_PngScanlinesAndIHDR ==
    RunDone =>
        /\ Len(Png) >= 8 + 12 + 13 + 12 + 12
        /\ Chunk1.len = 13
        /\ ChunkEnd(Chunk2) + 12 = Len(Png)
        /\ U32BEAt(ChunkData(Png, Chunk1), 0) = 32
        /\ U32BEAt(ChunkData(Png, Chunk1), 4) = 32
        /\ BytesAt(ChunkData(Png, Chunk1), 8, 5) = <<8, 6, 0, 0, 0>>
        /\ IsScanlines(PngRaw, 32, 32)
        /\ IsScanlines(raw, U32BEAt(ChunkData(Png, Chunk1), 0),
                       U32BEAt(ChunkData(Png, Chunk1), 4))
        /\ raw = PngRaw

\* C6 witness: a run has ended with 32 rows appended to raw and an IDAT
\* chunk in icon.png that inflates to 4128 bytes
C6_Witness ==
    /\ RunDone
    /\ row = 32
    /\ Len(Png) > 57
    /\ Len(PngRaw) = 4128

\* C7: in icon.png each chunk's trailing 4 bytes are the big-endian CRC32
\* of its type bytes followed by its payload; they are not the CRC32 of the
\* payload alone nor of length, type and payload.
C7_ChunkCrc ==
    RunDone =>
        /\ Len(Png) >= 8 + 12 + 13 + 12 + 12
        /\ Chunk1.len = 13
        /\ ChunkEnd(Chunk2) + 12 = Len(Png)
        /\ Chunk3.len = 0
        /\ \A c \in {Chunk1, Chunk2, Chunk3} :
              /\ ChunkCrc(Png, c)
                   = pack_word_be(zlib_crc32(ChunkType(Png, c) \o ChunkData(Png, c)))
              /\ ChunkCrc(Png, c) # pack_word_be(zlib_crc32(ChunkData(Png, c)))
              /\ ChunkCrc(Png, c)
                   # pack_word_be(zlib_crc32(BytesAt(Png, c.off, 8 + c.len)))
              /\ \A k \in 1..4 : ChunkCrc(Png, c)[k] \in 0..255

\* C7 witness: a run has ended and icon.png ends with the checksum of an
\* empty IEND chunk, AE 42 60 82
C7_Witness ==
    /\ RunDone
    /\ Len(Png) > 57
    /\ BytesAt(Png, Len(Png) - 4, 4) = <<174, 66, 96, 130>>
    /\ ChunkType(Png, Chunk2) = <<73, 68, 65, 84>>

\* C8: whatever the two files held before (absent, shorter, longer, an
\* earlier run's output or what a failed run left), after every run that
\* ends normally each file holds exactly the bytes of one run, nothing
\* left over from before.
C8_RunIsIdempotent ==
    RunDone =>
        \A p \in Paths :
            /\ Len(disk[p]) = Len(Expected(p))
            /\ disk[p] = Expected(p)

\* C8 witness: a second run has ended normally on the files a first normal
\* run left, and left them as they were
C8_Witness ==
    /\ RunDone
    /\ runs = 2
    /\ before[ico_path] = ExpectedIco
    /\ before[png_path] = ExpectedPng
    /\ disk = before

\* the run ended by an I/O error
RunFailed == pc = "failed"

\* C9 as stated: when a run ends by an I/O error, each file is untouched or
\* holds the complete intended content.
C9_WriteAllOrNothing ==
    RunFailed =>
        \A p \in Paths : disk[p] = before[p] \/ disk[p] = Expected(p)

\* C9 amended: when a run ends by an I/O error, a file the run did not open
\* is untouched, and a file it opened holds a prefix of the intended
\* content (empty, partial or complete): never bytes of its old content,
\* never bytes out of order.
C9_WritePrefixOnFailure ==
    RunFailed =>
        \A p \in Paths :
            /\ p \notin opened => disk[p] = before[p]
            /\ p \in opened => IsPrefix(disk[p], Expected(p))

\* C9 witness: a run ended by an I/O error and left icon.png holding the
\* signature alone
C9_Witness ==
    /\ RunFailed
    /\ err = png_path
    /\ png_path \in opened
    /\ Png = png_signature

Printed(line) == \E k \in 1..Len(stdout) : stdout[k] = line

CreatedIco == "Created " \o ico_path

CreatedPng == "Created " \o png_path

\* C10: the lines come out in order and each only after its file is
\* complete and closed; icon.png is opened only after the first line; when
\* icon.ico fails, icon.png is neither opened nor changed and nothing is
\* printed; when icon.png fails, icon.ico stays complete and only the first
\* line was printed.
C10_SequentialAndPropagating ==
    /\ IsPrefix(stdout, <<CreatedIco, CreatedPng, "Done!">>)
    /\ Printed(CreatedIco) => (Ico = ExpectedIco /\ fopen # ico_path)
    /\ png_path \in opened => Printed(CreatedIco)
    /\ Printed(CreatedPng) => (Png = ExpectedPng /\ fopen = "none")
    /\ Printed("Done!") => (Printed(CreatedIco) /\ Printed(CreatedPng))
    /\ err = ico_path =>
          /\ png_path \notin opened
          /\ Png = before[png_path]
          /\ stdout = <<>>
    /\ err = png_path =>
          /\ Ico = ExpectedIco
          /\ stdout = <<CreatedIco>>
    /\ RunFailed => err # "none"
    /\ RunDone => err = "none"

\* C10 witness: writing icon.png failed after icon.ico was written and
\* announced; the run is over
C10_Witness ==
    /\ RunFailed
    /\ err = png_path
    /\ Ico = ExpectedIco
    /\ stdout = <<CreatedIco>>
    /\ Png # ExpectedPng

====
